---- MODULE Spec2Model ----
(***************************************************************************)
(* A model of maze_game.py: the wall model, the randomized Prim builder,   *)
(* the connectivity guard (BFS check and greedy repair) of MazeGenerator   *)
(* and the movement predicate of MazeGame.                                 *)
(*                                                                         *)
(* A Cell is the pair <<x, y>>; a wall is the pair <<cell1, cell2>> as the *)
(* code stores it in the set `walls`.                                      *)
(***************************************************************************)
EXTENDS Integers, Sequences, FiniteSets, TLC

VARIABLES
    maze_generator,   \* a MazeGenerator and the activation of its generate_maze
    twin,             \* a second, independent MazeGenerator run (determinism)
    maze_size,        \* MAZE_SIZE as MazeGame sees it
    walls,            \* MazeGame.walls
    call,             \* the current call of MazeGame.can_move and its result
    game              \* the other fields of MazeGame, its run loop, the event
                      \* queue, the clock and the keyboard

vars == <<maze_generator, twin, maze_size, walls, call, game>>

----------------------------------------------------------------------------
(* Bounds of the model.                                                    *)

\* Largest number of cells (width * height) of the grids handed to
\* MazeGenerator in the generation runs.
MaxCells == 9
\* Largest number of cells of the grids whose Wall Set is drawn freely
\* (every subset of the full set) for the guard's check and repair.
MaxGuardCells == 6
\* Largest MAZE_SIZE of the grids on which can_move is called with a freely
\* drawn Wall Set.
MaxMoveSize == 2

\* What differs between two runs of the interpreter besides the random
\* draws: the hash randomization seed (PYTHONHASHSEED).
HashSeeds == {0, 1}

----------------------------------------------------------------------------
(* Direction and Cell.                                                     *)

UP == <<0, -1>>
RIGHT == <<1, 0>>
DOWN == <<0, 1>>
LEFT == <<-1, 0>>

\* The members of the Enum in definition order, the order of
\* `for direction in Direction`.
Direction == <<UP, RIGHT, DOWN, LEFT>>

get_neighbor(cell, direction) ==
    <<cell[1] + direction[1], cell[2] + direction[2]>>

\* The test `0 <= c.x < width and 0 <= c.y < height` of the code.
in_bounds(cell, width, height) ==
    /\ 0 <= cell[1] /\ cell[1] < width
    /\ 0 <= cell[2] /\ cell[2] < height

Cells(width, height) == (0 .. width - 1) \X (0 .. height - 1)

Range(seq) == {seq[i] : i \in 1 .. Len(seq)}

\* The widths and heights of the grids of at most n cells.
Sizes(n) == {wh \in (1 .. n) \X (1 .. n) : wh[1] * wh[2] <= n}

\* All four neighbours of a cell, in Direction order.
Neighbors(cell) == [i \in 1 .. 4 |-> get_neighbor(cell, Direction[i])]

----------------------------------------------------------------------------
(* The Wall Set.                                                           *)

\* init_walls with the loop bound `x < self.width` (an off-by-one): walls
\* towards cells right of the last column.
init_walls_off_by_one(width, height) ==
    {<<c, get_neighbor(c, RIGHT)>> : c \in Cells(width, height)}
        \cup {<<c, get_neighbor(c, DOWN)>> :
                c \in {d \in Cells(width, height) : d[2] < height - 1}}

init_walls(width, height) ==
    {<<c, get_neighbor(c, RIGHT)>> :
        c \in {d \in Cells(width, height) : d[1] < width - 1}}
        \cup {<<c, get_neighbor(c, DOWN)>> :
                c \in {d \in Cells(width, height) : d[2] < height - 1}}

\* _remove_wall that never swaps its arguments.
remove_wall_no_swap(ws, cell1, cell2) == ws \ {<<cell1, cell2>>}

\* _remove_wall that swaps the wrong way round.
remove_wall_bad_swap(ws, cell1, cell2) ==
    IF cell1[1] < cell2[1] \/ cell1[2] < cell2[2]
    THEN ws \ {<<cell2, cell1>>}
    ELSE ws \ {<<cell1, cell2>>}

\* _remove_wall that toggles the wall: removes it when present, adds it
\* when absent.
remove_wall_toggle(ws, cell1, cell2) ==
    LET key == IF cell1[1] > cell2[1] \/ cell1[2] > cell2[2]
               THEN <<cell2, cell1>>
               ELSE <<cell1, cell2>>
    IN IF key \in ws THEN ws \ {key} ELSE ws \cup {key}

\* _remove_wall: the set `ws` after the call.
_remove_wall(ws, cell1, cell2) ==
    LET key == IF cell1[1] > cell2[1] \/ cell1[2] > cell2[2]
               THEN <<cell2, cell1>>
               ELSE <<cell1, cell2>>
    IN IF key \in ws THEN ws \ {key} ELSE ws

\* is_wall_between without the swap.
is_wall_between_no_swap(ws, cell1, cell2) == <<cell1, cell2>> \in ws

\* MazeGenerator.is_wall_between.
is_wall_between(ws, cell1, cell2) ==
    IF cell1[1] > cell2[1] \/ (cell1[1] = cell2[1] /\ cell1[2] > cell2[2])
    THEN <<cell2, cell1>> \in ws
    ELSE <<cell1, cell2>> \in ws

----------------------------------------------------------------------------
(* The builder.                                                            *)

\* _add_frontier_cells that forgets the test `neighbor not in visited`.
add_frontier_cells_revisit(cell, visited, frontier, width, height) ==
    frontier \cup {n \in Range(Neighbors(cell)) : in_bounds(n, width, height)}

\* _add_frontier_cells: the set `frontier` after the call.
_add_frontier_cells(cell, visited, frontier, width, height) ==
    frontier \cup {n \in Range(Neighbors(cell)) :
                      /\ in_bounds(n, width, height)
                      /\ n \notin visited
                      /\ n \notin frontier}

\* The order of two cells in the iteration of a set of cells. A Cell hashes
\* as the tuple of its two ints, which the hash seed does not reach, so the
\* order is a function of the cells alone; the model takes the order by
\* (x, y).
CellBefore(c, d) == c[1] < d[1] \/ (c[1] = d[1] /\ c[2] <= d[2])

RECURSIVE SortedCells(_)
SortedCells(S) ==
    IF S = {} THEN <<>>
    ELSE LET m == CHOOSE c \in S : \A d \in S : CellBefore(c, d)
         IN <<m>> \o SortedCells(S \ {m})

\* list(frontier) were the iteration order of the set to depend on the hash
\* seed (as it does for a set of str keys).
list_hash_seeded(S, hash_seed) ==
    LET l == SortedCells(S)
    IN IF hash_seed = 0 THEN l ELSE [i \in 1 .. Len(l) |-> l[Len(l) + 1 - i]]

\* list(frontier): the cells of the set in its iteration order.
list(S, hash_seed) == SortedCells(S)

\* random.choice(seq) when the random source yields the draw r: the element
\* at index r reduced to the length of seq.
choice(seq, r) == seq[(r % Len(seq)) + 1]

----------------------------------------------------------------------------
(* MazeGenerator: its fields (width, height, walls), the locals of         *)
(* generate_maze (visited_cells, frontier) and of _create_path (current,   *)
(* visited, path), the position pc of the run, and what the run records    *)
(* about itself: iterations and skipped (iterations of the Prim loop, and  *)
(* those that took no `if neighbors` branch), removed (the arguments of    *)
(* the last _remove_wall of the Prim loop), deleted (the number of entries *)
(* its _remove_wall calls deleted), repaired (_create_path was invoked),   *)
(* exhausted (_create_path left through `if not path: break`). start and   *)
(* end are the arguments of the guard.                                     *)

MazeGenerator(width, height, hash_seed) ==
    [width |-> width, height |-> height,
     walls |-> init_walls(width, height),
     hash_seed |-> hash_seed,
     pc |-> "init",
     visited_cells |-> {}, frontier |-> {},
     start |-> <<0, 0>>, end |-> <<width - 1, height - 1>>,
     current |-> <<0, 0>>, visited |-> {}, path |-> <<>>,
     iterations |-> 0, skipped |-> 0, removed |-> <<>>, deleted |-> 0,
     repaired |-> FALSE, exhausted |-> FALSE]

\* A call self._remove_wall(cell1, cell2).
call_remove_wall(g, cell1, cell2) ==
    LET after == _remove_wall(g.walls, cell1, cell2)
    IN [g EXCEPT !.walls = after,
                 !.deleted = @ + Cardinality(g.walls) - Cardinality(after)]

\* The list `neighbors` without the test `neighbor in visited_cells`.
visited_neighbors_any(g, cell) ==
    SelectSeq(Neighbors(cell), LAMBDA n : in_bounds(n, g.width, g.height))

\* The in-bounds neighbours of `cell` that are in `visited`, in Direction
\* order: the list `neighbors` of the Prim loop.
visited_neighbors(g, cell) ==
    SelectSeq(Neighbors(cell),
              LAMBDA n : in_bounds(n, g.width, g.height) /\ n \in g.visited_cells)

\* The test `while frontier` of generate_maze.
loop_test(g) ==
    [g EXCEPT !.pc = IF g.frontier # {} THEN "loop" ELSE "guard"]

\* generate_maze up to its loop: visited_cells = {start}, the frontier of
\* the start cell.
generate_maze_start(g) ==
    LET start_cell == <<0, 0>>
    IN loop_test([g EXCEPT
           !.visited_cells = {start_cell},
           !.frontier = _add_frontier_cells(start_cell, {start_cell}, {},
                                            g.width, g.height)])

\* One iteration of the Prim loop, r1 and r2 the two draws of the random
\* source.
PrimIteration(g, r1, r2) ==
    LET current == choice(list(g.frontier, g.hash_seed), r1)
        frontier1 == g.frontier \ {current}
        neighbors == visited_neighbors(g, current)
    IN IF neighbors # <<>>
       THEN LET neighbor == choice(neighbors, r2)
                visited1 == g.visited_cells \cup {current}
            IN loop_test([call_remove_wall(g, current, neighbor) EXCEPT
                   !.visited_cells = visited1,
                   !.frontier = _add_frontier_cells(current, visited1, frontier1,
                                                    g.width, g.height),
                   !.removed = <<current, neighbor>>,
                   !.iterations = @ + 1])
       ELSE loop_test([g EXCEPT
                   !.frontier = frontier1,
                   !.iterations = @ + 1,
                   !.skipped = @ + 1])

----------------------------------------------------------------------------
(* The connectivity guard.                                                 *)

\* The loop of _has_path: the queue and the visited set of the BFS.
RECURSIVE has_path_loop(_, _, _, _, _, _)
has_path_loop(ws, width, height, end, queue, visited) ==
    IF queue = <<>> THEN FALSE
    ELSE LET current == Head(queue)
             new == SelectSeq(Neighbors(current),
                        LAMBDA n : /\ in_bounds(n, width, height)
                                   /\ n \notin visited
                                   /\ ~is_wall_between(ws, current, n))
         IN IF current = end THEN TRUE
            ELSE has_path_loop(ws, width, height, end,
                               Tail(queue) \o new, visited \cup Range(new))

\* _has_path that answers for the start cell alone.
has_path_start_only(ws, width, height, start, end) == start = end

_has_path(ws, width, height, start, end) ==
    has_path_loop(ws, width, height, end, <<start>>, {start})

\* One iteration of the loop `while current != end` of _create_path.
create_path_iteration(g, end) ==
    LET current == g.current
        preferred == IF current[1] < end[1] THEN RIGHT
                     ELSE IF current[1] > end[1] THEN LEFT
                     ELSE IF current[2] < end[2] THEN DOWN
                     ELSE UP
        toward == get_neighbor(current, preferred)
        candidates == SelectSeq(Neighbors(current),
                         LAMBDA n : in_bounds(n, g.width, g.height)
                                    /\ n \notin g.visited)
        next_cell == IF (~in_bounds(toward, g.width, g.height)
                            \/ toward \in g.visited) /\ candidates # <<>>
                     THEN Head(candidates)
                     ELSE toward
    IN IF in_bounds(next_cell, g.width, g.height)
       THEN [call_remove_wall(g, current, next_cell) EXCEPT
                      !.visited = @ \cup {next_cell},
                      !.path = Append(@, next_cell),
                      !.current = next_cell]
       ELSE LET popped == SubSeq(g.path, 1, Len(g.path) - 1)
            IN IF popped = <<>>
               THEN [g EXCEPT !.path = popped, !.exhausted = TRUE]
               ELSE [g EXCEPT !.path = popped, !.current = popped[Len(popped)]]

\* _create_path up to its loop.
create_path_start(g, start) ==
    [g EXCEPT !.current = start, !.visited = {start}, !.path = <<start>>,
              !.exhausted = FALSE, !.repaired = TRUE]

RECURSIVE create_path_loop(_, _)
create_path_loop(g, end) ==
    IF g.current = end \/ g.exhausted THEN g
    ELSE create_path_loop(create_path_iteration(g, end), end)

_create_path(g, start, end) == create_path_loop(create_path_start(g, start), end)

_ensure_path_exists(g, start, end) ==
    IF ~_has_path(g.walls, g.width, g.height, start, end)
    THEN _create_path(g, start, end)
    ELSE g

\* generate_maze from the end of its loop: the guard, and the return.
generate_maze_finish(g) ==
    [_ensure_path_exists(g, <<0, 0>>, <<g.width - 1, g.height - 1>>)
        EXCEPT !.pc = "done"]

\* The test `while current != end` of _create_path, and its `break`.
create_path_test(g) ==
    [g EXCEPT !.pc = IF g.current = g.end \/ g.exhausted
                     THEN "returned" ELSE "create_path"]

----------------------------------------------------------------------------
(* MazeGame.can_move.                                                      *)

\* MazeGame.is_wall_between.
MazeGame_is_wall_between(ws, cell1, cell2) ==
    IF cell1[1] > cell2[1] \/ (cell1[1] = cell2[1] /\ cell1[2] > cell2[2])
    THEN <<cell2, cell1>> \in ws
    ELSE <<cell1, cell2>> \in ws

\* The evaluation of `not is_wall_between(..) and not is_wall_between(..) and
\* ...` over the pairs of `lookups`, left to right, stopping at the first
\* wall: the value, and the pairs is_wall_between was called with.
RECURSIVE all_open(_, _)
all_open(ws, lookups) ==
    IF lookups = <<>> THEN [ret |-> TRUE, lookups |-> <<>>]
    ELSE IF MazeGame_is_wall_between(ws, Head(lookups)[1], Head(lookups)[2])
         THEN [ret |-> FALSE, lookups |-> <<Head(lookups)>>]
         ELSE LET rest == all_open(ws, Tail(lookups))
              IN [ret |-> rest.ret, lookups |-> <<Head(lookups)>> \o rest.lookups]

\* can_move whose bounds test is `0 <= to_cell.x <= MAZE_SIZE` (and the same
\* for y).
can_move_off_by_one(ws, size, from_cell, to_cell) ==
    IF ~in_bounds(to_cell, size + 1, size + 1)
    THEN [ret |-> FALSE, lookups |-> <<>>]
    ELSE all_open(ws, <<<<from_cell, to_cell>>>>)

\* can_move whose diagonal branch accepts one open corner path (`or`
\* between the two paths).
can_move_one_corner(ws, size, from_cell, to_cell) ==
    LET dx == to_cell[1] - from_cell[1]
        dy == to_cell[2] - from_cell[2]
        corner_x == <<from_cell[1] + dx, from_cell[2]>>
        corner_y == <<from_cell[1], from_cell[2] + dy>>
        path_x == all_open(ws, <<<<from_cell, corner_x>>, <<corner_x, to_cell>>>>)
        path_y == all_open(ws, <<<<from_cell, corner_y>>, <<corner_y, to_cell>>>>)
    IN IF ~in_bounds(to_cell, size, size)
       THEN [ret |-> FALSE, lookups |-> <<>>]
       ELSE IF dx # 0 /\ dy # 0
            THEN IF path_x.ret THEN path_x
                 ELSE [ret |-> path_y.ret, lookups |-> path_x.lookups \o path_y.lookups]
            ELSE all_open(ws, <<<<from_cell, to_cell>>>>)

\* can_move(from_cell, to_cell) of a MazeGame with the Wall Set ws and
\* MAZE_SIZE = size: the value returned, and the pairs is_wall_between was
\* called with on the way.
can_move(ws, size, from_cell, to_cell) ==
    LET dx == to_cell[1] - from_cell[1]
        dy == to_cell[2] - from_cell[2]
        corner_x == <<from_cell[1] + dx, from_cell[2]>>
        corner_y == <<from_cell[1], from_cell[2] + dy>>
    IN IF ~in_bounds(to_cell, size, size)
       THEN [ret |-> FALSE, lookups |-> <<>>]
       ELSE IF dx # 0 /\ dy # 0
            THEN all_open(ws, << <<from_cell, corner_x>>, <<corner_x, to_cell>>,
                                 <<from_cell, corner_y>>, <<corner_y, to_cell>> >>)
            ELSE all_open(ws, <<<<from_cell, to_cell>>>>)

----------------------------------------------------------------------------
(* Spec: one MazeGenerator, constructed for some width and height, runs    *)
(* generate_maze once.                                                     *)

NoGenerator == MazeGenerator(0, 0, 0)
NoCall == [pc |-> "none", from_cell |-> <<0, 0>>, to_cell |-> <<0, 0>>,
           ret |-> FALSE, lookups |-> <<>>]
\* No MazeGame.
NoGame == [pc |-> "none"]

Init ==
    /\ \E wh \in Sizes(MaxCells), s \in HashSeeds :
           maze_generator = MazeGenerator(wh[1], wh[2], s)
    /\ twin = NoGenerator
    /\ maze_size = 0
    /\ walls = {}
    /\ call = NoCall
    /\ game = NoGame

GenerateMazeStart ==
    /\ maze_generator.pc = "init"
    /\ maze_generator' = generate_maze_start(maze_generator)
    /\ UNCHANGED <<twin, maze_size, walls, call, game>>

PrimStep ==
    /\ maze_generator.pc = "loop"
    /\ \E r1 \in 0 .. Cardinality(maze_generator.frontier) - 1, r2 \in 0 .. 3 :
           maze_generator' = PrimIteration(maze_generator, r1, r2)
    /\ UNCHANGED <<twin, maze_size, walls, call, game>>

GenerateMazeFinish ==
    /\ maze_generator.pc = "guard"
    /\ maze_generator' = generate_maze_finish(maze_generator)
    /\ UNCHANGED <<twin, maze_size, walls, call, game>>

Next == GenerateMazeStart \/ PrimStep \/ GenerateMazeFinish

Spec == Init /\ [][Next]_vars

----------------------------------------------------------------------------
(* The grid as a graph, stated without the code's operators: the open      *)
(* edges of a Wall Set and what they connect.                              *)

Abs(n) == IF n < 0 THEN -n ELSE n
Manhattan(a, b) == Abs(a[1] - b[1]) + Abs(a[2] - b[2])

\* No wall between a and b: the set holds the pair in neither order.
Open(ws, a, b) == <<a, b>> \notin ws /\ <<b, a>> \notin ws

\* The unordered pairs of in-bounds cells at Manhattan distance 1.
AdjacentPairs(width, height) ==
    {{p[1], p[2]} : p \in {q \in Cells(width, height) \X Cells(width, height) :
                              Manhattan(q[1], q[2]) = 1}}

OpenEdges(ws, width, height) ==
    {e \in AdjacentPairs(width, height) : \A a \in e, b \in e : a # b => Open(ws, a, b)}

\* The cells joined to the cells of S by a path over the edges of E.
RECURSIVE Connected(_, _)
Connected(E, S) ==
    LET more == S \cup {c \in UNION E : \E d \in S : {c, d} \in E}
    IN IF more = S THEN S ELSE Connected(E, more)

\* No cycle: every edge is the only way between its two ends.
Acyclic(E) ==
    \A e \in E : \E a \in e : ~(e \subseteq Connected(E \ {e}, {a}))

Start == <<0, 0>>
Goal(g) == <<g.width - 1, g.height - 1>>
GenOpenEdges(g) == OpenEdges(g.walls, g.width, g.height)

----------------------------------------------------------------------------
(* Claims about generate_maze, under Spec.                                 *)

\* C1: when generate_maze returns, (W-1,H-1) is reachable from (0,0) over
\* in-bounds 4-adjacent cells with no wall between consecutive cells.
C1_GoalReachable ==
    maze_generator.pc = "done" =>
        Goal(maze_generator) \in Connected(GenOpenEdges(maze_generator), {Start})

C1_Witness ==
    /\ maze_generator.pc = "done"
    /\ maze_generator.width = 3 /\ maze_generator.height = 3
    /\ <<<<0, 0>>, <<1, 0>>>> \in maze_generator.walls

\* C2: when the Prim loop ends, before the guard runs, the open edges form a
\* spanning tree of the grid: W*H-1 of them, no cycle, every cell reachable
\* from (0,0).
C2_SpanningTree ==
    maze_generator.pc = "guard" =>
        LET E == GenOpenEdges(maze_generator)
        IN /\ Cardinality(E) = maze_generator.width * maze_generator.height - 1
           /\ Acyclic(E)
           /\ Connected(E, {Start}) = Cells(maze_generator.width, maze_generator.height)

C2_Witness ==
    /\ maze_generator.pc = "guard"
    /\ maze_generator.width = 3 /\ maze_generator.height = 3
    /\ maze_generator.iterations = 8

\* C5: right after construction the Wall Set has 2*W*H - W - H entries, one
\* for every pair of in-bounds cells at Manhattan distance 1 and none for
\* any other pair.
C5_InitialWalls ==
    maze_generator.pc = "init" =>
        LET w == maze_generator.width
            h == maze_generator.height
            ws == maze_generator.walls
        IN /\ Cardinality(ws) = 2 * w * h - w - h
           /\ \A e \in ws : /\ e[1] \in Cells(w, h) /\ e[2] \in Cells(w, h)
                            /\ Manhattan(e[1], e[2]) = 1
           /\ \A a \in Cells(w, h), b \in Cells(w, h) :
                  Manhattan(a, b) = 1 => (<<a, b>> \in ws) # (<<b, a>> \in ws)

C5_Witness ==
    /\ maze_generator.pc = "init"
    /\ maze_generator.width = 3 /\ maze_generator.height = 3
    /\ Cardinality(maze_generator.walls) = 12

\* C6: for every grid-adjacent pair, in every reachable state,
\* is_wall_between agrees in both argument orders; it is true in the
\* initial set; and after _remove_wall with the pair in either order it is
\* false in both orders (also for the pair the Prim loop removed last).
C6_Canonical ==
    LET g == maze_generator
        adjacent == {ab \in Cells(g.width, g.height) \X Cells(g.width, g.height) :
                        Manhattan(ab[1], ab[2]) = 1}
    IN /\ \A ab \in adjacent :
            /\ is_wall_between(g.walls, ab[1], ab[2])
                   = is_wall_between(g.walls, ab[2], ab[1])
            /\ g.pc = "init" => is_wall_between(g.walls, ab[1], ab[2])
            /\ LET after == _remove_wall(g.walls, ab[1], ab[2])
               IN /\ ~is_wall_between(after, ab[1], ab[2])
                  /\ ~is_wall_between(after, ab[2], ab[1])
       /\ g.removed # <<>> =>
            /\ ~is_wall_between(g.walls, g.removed[1], g.removed[2])
            /\ ~is_wall_between(g.walls, g.removed[2], g.removed[1])

\* The Prim loop has just removed a wall with the arguments in the order
\* that needs the swap (the drawn cell lies below its visited neighbour).
C6_Witness ==
    /\ maze_generator.removed = <<<<1, 1>>, <<1, 0>>>>
    /\ maze_generator.pc = "loop"

\* C3: the guard never changes a freshly built maze: _has_path succeeds
\* after the Prim loop, _create_path is never invoked, the guard's step
\* leaves the Wall Set as it is, and the returned Wall Set has W*H-1 open
\* edges.
C3_GuardLeavesMaze ==
    /\ [](maze_generator.pc = "guard" =>
            _has_path(maze_generator.walls, maze_generator.width,
                      maze_generator.height, Start, Goal(maze_generator)))
    /\ [](~maze_generator.repaired)
    /\ [](maze_generator.pc = "done" =>
            Cardinality(GenOpenEdges(maze_generator))
                = maze_generator.width * maze_generator.height - 1)
    /\ [][maze_generator.pc = "guard" =>
            maze_generator'.walls = maze_generator.walls]_vars

\* generate_maze has returned on the 2x2 grid: 3 pairs open, 1 walled.
C3_Witness ==
    /\ maze_generator.pc = "done"
    /\ maze_generator.width = 2 /\ maze_generator.height = 2
    /\ Cardinality(maze_generator.walls) = 1
    /\ Cardinality(GenOpenEdges(maze_generator)) = 3

----------------------------------------------------------------------------
(* SpecTwin: two independent MazeGenerator runs of the same width and      *)
(* height, each under its own hash seed, fed the same draws of the random  *)
(* source (the same seed of `random`): every step hands both runs the same *)
(* two draws.                                                              *)

InitTwin ==
    /\ \E wh \in Sizes(MaxCells), s1 \in HashSeeds, s2 \in HashSeeds :
           /\ maze_generator = MazeGenerator(wh[1], wh[2], s1)
           /\ twin = MazeGenerator(wh[1], wh[2], s2)
    /\ maze_size = 0
    /\ walls = {}
    /\ call = NoCall
    /\ game = NoGame

TwinStart ==
    /\ maze_generator.pc = "init" /\ twin.pc = "init"
    /\ maze_generator' = generate_maze_start(maze_generator)
    /\ twin' = generate_maze_start(twin)
    /\ UNCHANGED <<maze_size, walls, call, game>>

TwinPrimStep ==
    /\ maze_generator.pc = "loop" /\ twin.pc = "loop"
    /\ \E r1 \in 0 .. Cardinality(maze_generator.frontier) - 1, r2 \in 0 .. 3 :
           /\ maze_generator' = PrimIteration(maze_generator, r1, r2)
           /\ twin' = PrimIteration(twin, r1, r2)
    /\ UNCHANGED <<maze_size, walls, call, game>>

TwinFinish ==
    /\ maze_generator.pc = "guard" /\ twin.pc = "guard"
    /\ maze_generator' = generate_maze_finish(maze_generator)
    /\ twin' = generate_maze_finish(twin)
    /\ UNCHANGED <<maze_size, walls, call, game>>

NextTwin == TwinStart \/ TwinPrimStep \/ TwinFinish

SpecTwin == InitTwin /\ [][NextTwin]_vars

----------------------------------------------------------------------------
(* SpecGuard: the repair called on a MazeGenerator whose Wall Set is any   *)
(* subset of the full set, for any in-bounds start and end, one iteration  *)
(* of its loop per step.                                                   *)

InitGuard ==
    /\ \E wh \in Sizes(MaxGuardCells) :
         \E ws \in SUBSET init_walls(wh[1], wh[2]),
            start \in Cells(wh[1], wh[2]), end \in Cells(wh[1], wh[2]) :
           maze_generator = [MazeGenerator(wh[1], wh[2], 0) EXCEPT
                                !.walls = ws, !.start = start, !.end = end,
                                !.pc = "call_create_path"]
    /\ twin = NoGenerator
    /\ maze_size = 0
    /\ walls = {}
    /\ call = NoCall
    /\ game = NoGame

CreatePathStart ==
    /\ maze_generator.pc = "call_create_path"
    /\ maze_generator' =
           create_path_test(create_path_start(maze_generator, maze_generator.start))
    /\ UNCHANGED <<twin, maze_size, walls, call, game>>

CreatePathStep ==
    /\ maze_generator.pc = "create_path"
    /\ maze_generator' =
           create_path_test(create_path_iteration(maze_generator, maze_generator.end))
    /\ UNCHANGED <<twin, maze_size, walls, call, game>>

NextGuard == CreatePathStart \/ CreatePathStep

SpecGuard == InitGuard /\ [][NextGuard]_vars

----------------------------------------------------------------------------
(* SpecLifetime: a MazeGenerator from its construction on, through         *)
(* generate_maze (Spec) or through the repair called on it (SpecGuard).    *)

InitLifetime == Init \/ InitGuard

NextLifetime ==
    \/ GenerateMazeStart
    \/ PrimStep
    \/ GenerateMazeFinish
    \/ CreatePathStart
    \/ CreatePathStep

SpecLifetime == InitLifetime /\ [][NextLifetime]_vars

\* C7: within one MazeGenerator the Wall Set only shrinks: every step of
\* the Prim loop and of the repair leaves a subset of the previous Wall Set,
\* so every reachable Wall Set is a subset of the initial full set and
\* holds only pairs of in-bounds cells at Manhattan distance 1.
C7_WallsOnlyShrink ==
    /\ [][maze_generator'.walls \subseteq maze_generator.walls]_vars
    /\ [](/\ maze_generator.walls
                \subseteq init_walls(maze_generator.width, maze_generator.height)
          /\ \A e \in maze_generator.walls :
                /\ e[1] \in Cells(maze_generator.width, maze_generator.height)
                /\ e[2] \in Cells(maze_generator.width, maze_generator.height)
                /\ Manhattan(e[1], e[2]) = 1)

\* The repair has carved its way across the fully walled 3x2 grid, from
\* (0,0) to (2,1), deleting three walls.
C7_Witness ==
    /\ maze_generator.pc = "returned"
    /\ maze_generator.width = 3 /\ maze_generator.height = 2
    /\ maze_generator.start = <<0, 0>> /\ maze_generator.end = <<2, 1>>
    /\ maze_generator.deleted = 3
    /\ Cardinality(maze_generator.walls) = 4

----------------------------------------------------------------------------
(* SpecMove: can_move called on a MazeGame of MAZE_SIZE = maze_size whose  *)
(* Wall Set is any subset of the full set, with any two cells of the grid  *)
(* or of the ring of cells around it.                                      *)

Ring(size) == (-1 .. size) \X (-1 .. size)

InitMove ==
    /\ maze_generator = NoGenerator
    /\ twin = NoGenerator
    /\ maze_size \in 1 .. MaxMoveSize
    /\ walls \in SUBSET init_walls(maze_size, maze_size)
    /\ \E from_cell \in Ring(maze_size), to_cell \in Ring(maze_size) :
           call = [NoCall EXCEPT !.pc = "called",
                                 !.from_cell = from_cell, !.to_cell = to_cell]
    /\ game = NoGame

CanMove ==
    /\ call.pc = "called"
    /\ LET r == can_move(walls, maze_size, call.from_cell, call.to_cell)
       IN call' = [call EXCEPT !.pc = "returned", !.ret = r.ret,
                               !.lookups = r.lookups]
    /\ UNCHANGED <<maze_generator, twin, maze_size, walls, game>>

NextMove == CanMove

SpecMove == InitMove /\ [][NextMove]_vars

\* A coordinate of the cell lies outside [0, size) x [0, size).
OutOfRange(cell, size) ==
    cell[1] \notin 0 .. size - 1 \/ cell[2] \notin 0 .. size - 1

\* C8: can_move returns false for every destination with a coordinate
\* outside the grid, whatever `from` and the Wall Set are.
C8_OutOfBoundsRejected ==
    (call.pc = "returned" /\ OutOfRange(call.to_cell, maze_size)) => ~call.ret

\* can_move has returned for the step from the in-bounds (1,0) to (2,0),
\* right of the 2x2 grid, between which the Wall Set holds no entry.
C8_Witness ==
    /\ call.pc = "returned"
    /\ maze_size = 2
    /\ call.from_cell = <<1, 0>> /\ call.to_cell = <<2, 0>>
    /\ ~call.ret

\* C9: for a diagonal unit step between in-bounds cells, can_move is true
\* iff the four edges from-(x+dx,y), (x+dx,y)-to, from-(x,y+dy), (x,y+dy)-to
\* are all open in the Wall Set.
C9_DiagonalNeedsBothCorners ==
    LET from_cell == call.from_cell
        to_cell == call.to_cell
        corner_x == <<to_cell[1], from_cell[2]>>
        corner_y == <<from_cell[1], to_cell[2]>>
    IN (/\ call.pc = "returned"
        /\ ~OutOfRange(from_cell, maze_size) /\ ~OutOfRange(to_cell, maze_size)
        /\ Abs(to_cell[1] - from_cell[1]) = 1
        /\ Abs(to_cell[2] - from_cell[2]) = 1)
       => (call.ret <=> /\ Open(walls, from_cell, corner_x)
                        /\ Open(walls, corner_x, to_cell)
                        /\ Open(walls, from_cell, corner_y)
                        /\ Open(walls, corner_y, to_cell))

\* The 2x2 grid with (1,0)-(1,1) the only wall: can_move((0,0),(1,1)) has
\* returned false although the corner through (0,1) is open.
C9_Witness ==
    /\ call.pc = "returned"
    /\ maze_size = 2
    /\ walls = {<<<<1, 0>>, <<1, 1>>>>}
    /\ call.from_cell = <<0, 0>> /\ call.to_cell = <<1, 1>>
    /\ ~call.ret

\* C10: can_move returns false whenever `from` or `to` has a coordinate
\* outside the grid, and is_wall_between is never called with a pair that
\* holds an out-of-range cell.
C10_OutOfRangeNeverLookedUp ==
    call.pc = "returned" =>
        /\ (OutOfRange(call.from_cell, maze_size) \/ OutOfRange(call.to_cell, maze_size))
               => ~call.ret
        /\ \A i \in 1 .. Len(call.lookups) :
               /\ ~OutOfRange(call.lookups[i][1], maze_size)
               /\ ~OutOfRange(call.lookups[i][2], maze_size)

----------------------------------------------------------------------------
(* Claims about _remove_wall and the repair, under SpecGuard.              *)

\* The ordered pairs of grid-adjacent in-bounds cells, both orders.
AdjacentOrdered(width, height) ==
    {ab \in Cells(width, height) \X Cells(width, height) :
        Manhattan(ab[1], ab[2]) = 1}

\* C12: _remove_wall on a grid-adjacent pair whose wall is absent leaves the
\* Wall Set unchanged; when the wall is present it deletes exactly that one
\* entry and leaves every other entry; applying it twice equals applying it
\* once. The repair's own calls delete at most one entry each.
C12_RemoveWallExact ==
    LET g == maze_generator
    IN /\ \A ab \in AdjacentOrdered(g.width, g.height) :
            LET after == _remove_wall(g.walls, ab[1], ab[2])
                entries == {<<ab[1], ab[2]>>, <<ab[2], ab[1]>>} \cap g.walls
            IN /\ Open(g.walls, ab[1], ab[2]) => after = g.walls
               /\ ~Open(g.walls, ab[1], ab[2]) =>
                     /\ Cardinality(entries) = 1
                     /\ after = g.walls \ entries
                     /\ Cardinality(after) = Cardinality(g.walls) - 1
               /\ _remove_wall(after, ab[1], ab[2]) = after
       /\ g.pc \in {"create_path", "returned"} =>
            /\ 0 <= g.deleted /\ g.deleted <= Len(g.path) - 1
            /\ \A i \in 1 .. Len(g.path) - 1 : Open(g.walls, g.path[i], g.path[i + 1])

\* The repair has crossed the 3x2 grid from (0,0) to (2,1) with three calls
\* of _remove_wall, of which one found its wall and two found none, and has
\* left the walls off its path in place.
C12_Witness ==
    /\ maze_generator.pc = "returned"
    /\ maze_generator.width = 3 /\ maze_generator.height = 2
    /\ maze_generator.start = <<0, 0>> /\ maze_generator.end = <<2, 1>>
    /\ Len(maze_generator.path) = 4
    /\ maze_generator.deleted = 1
    /\ Cardinality(maze_generator.walls) = 4

\* C14: for every Wall Set that is a subset of the full set,
\* _create_path((0,0),(W-1,H-1)) terminates (every iteration of its loop
\* brings `current` one step closer to the goal) with current = goal, never
\* through the path-exhausted exit, and _has_path((0,0),(W-1,H-1)) is true
\* afterwards.
C14_RepairReachesGoal ==
    /\ [](LET g == maze_generator
          IN (g.start = Start /\ g.end = Goal(g)) =>
                /\ ~g.exhausted
                /\ g.pc = "returned" =>
                      /\ g.current = g.end
                      /\ _has_path(g.walls, g.width, g.height, Start, Goal(g)))
    /\ [][(/\ maze_generator.pc = "create_path"
           /\ maze_generator.start = Start
           /\ maze_generator.end = Goal(maze_generator))
            => Manhattan(maze_generator'.current, maze_generator.end)
                 = Manhattan(maze_generator.current, maze_generator.end) - 1]_vars

\* The repair has returned on the 3x2 grid that was fully walled: it deleted
\* the three walls of its way from (0,0) to (2,1).
C14_Witness ==
    /\ maze_generator.pc = "returned"
    /\ maze_generator.width = 3 /\ maze_generator.height = 2
    /\ maze_generator.start = <<0, 0>> /\ maze_generator.end = <<2, 1>>
    /\ maze_generator.current = <<2, 1>>
    /\ maze_generator.path = <<<<0, 0>>, <<1, 0>>, <<2, 0>>, <<2, 1>>>>
    /\ maze_generator.deleted = 3

----------------------------------------------------------------------------
(* SpecHasPath: _has_path called on a MazeGenerator whose Wall Set is any  *)
(* subset of the full set, for any in-bounds start and end.                *)

InitHasPath ==
    /\ \E wh \in Sizes(MaxGuardCells) :
         \E ws \in SUBSET init_walls(wh[1], wh[2]),
            start \in Cells(wh[1], wh[2]), end \in Cells(wh[1], wh[2]) :
           maze_generator = [MazeGenerator(wh[1], wh[2], 0) EXCEPT
                                !.walls = ws, !.start = start, !.end = end,
                                !.pc = "call_has_path"]
    /\ twin = NoGenerator
    /\ maze_size = 0
    /\ walls = {}
    /\ call = NoCall
    /\ game = NoGame

HasPath ==
    /\ maze_generator.pc = "call_has_path"
    /\ maze_generator' = [maze_generator EXCEPT !.pc = "has_path_returned"]
    /\ call' = [NoCall EXCEPT
                   !.pc = "returned",
                   !.from_cell = maze_generator.start,
                   !.to_cell = maze_generator.end,
                   !.ret = _has_path(maze_generator.walls, maze_generator.width,
                                     maze_generator.height, maze_generator.start,
                                     maze_generator.end)]
    /\ UNCHANGED <<twin, maze_size, walls, game>>

NextHasPath == HasPath

SpecHasPath == InitHasPath /\ [][NextHasPath]_vars

\* C13: _has_path(start, end) returns, and returns true iff end is
\* reachable from start over in-bounds 4-adjacent cells with no wall
\* between consecutive cells; the Wall Set is the same after the call.
C13_HasPathIsReachability ==
    /\ [](maze_generator.pc = "has_path_returned" =>
            (call.ret <=>
                maze_generator.end
                    \in Connected(GenOpenEdges(maze_generator), {maze_generator.start})))
    /\ [][maze_generator'.walls = maze_generator.walls]_vars

\* _has_path has answered false on the 3x2 grid for (0,0) and (2,1): the
\* start cell is walled in, the rest of the grid is open.
C13_Witness ==
    /\ maze_generator.pc = "has_path_returned"
    /\ maze_generator.width = 3 /\ maze_generator.height = 2
    /\ maze_generator.start = <<0, 0>> /\ maze_generator.end = <<2, 1>>
    /\ maze_generator.walls = {<<<<0, 0>>, <<1, 0>>>>, <<<<0, 0>>, <<0, 1>>>>}
    /\ ~call.ret

----------------------------------------------------------------------------
(* Claims about the Prim loop, under Spec.                                 *)

\* C15: at every iteration of the Prim loop the frontier and the visited
\* set are disjoint and hold only in-bounds cells, every frontier cell (so
\* the cell drawn) has an in-bounds neighbour in visited, and no iteration
\* misses the `if neighbors` branch: no cell leaves the frontier without
\* entering visited.
C15_FrontierInvariant ==
    LET g == maze_generator
    IN g.pc \in {"loop", "guard", "done"} =>
         /\ g.frontier \cap g.visited_cells = {}
         /\ g.frontier \subseteq Cells(g.width, g.height)
         /\ g.visited_cells \subseteq Cells(g.width, g.height)
         /\ \A c \in g.frontier :
               \E n \in g.visited_cells : Manhattan(c, n) = 1
         /\ \A c \in g.frontier : visited_neighbors(g, c) # <<>>
         /\ g.skipped = 0
         /\ Cardinality(g.visited_cells) = g.iterations + 1

\* The loop is under way on the 3x3 grid with three cells in the frontier.
C15_Witness ==
    /\ maze_generator.pc = "loop"
    /\ maze_generator.width = 3 /\ maze_generator.height = 3
    /\ maze_generator.iterations = 2
    /\ Cardinality(maze_generator.frontier) = 3

\* C16: the Prim loop ends after exactly W*H-1 iterations, each of which
\* deletes exactly one wall that was present and adds exactly one cell to
\* visited; at its end the frontier is empty and visited holds all cells.
C16_PrimLoopTerminates ==
    /\ [](LET g == maze_generator
          IN /\ g.iterations <= g.width * g.height - 1
             /\ g.pc = "loop" => g.frontier # {}
             /\ g.pc \in {"guard", "done"} =>
                   /\ g.iterations = g.width * g.height - 1
                   /\ g.frontier = {}
                   /\ g.visited_cells = Cells(g.width, g.height))
    /\ [][maze_generator.pc = "loop" =>
            /\ maze_generator'.iterations = maze_generator.iterations + 1
            /\ maze_generator'.deleted = maze_generator.deleted + 1
            /\ maze_generator'.walls \subseteq maze_generator.walls
            /\ Cardinality(maze_generator'.walls)
                 = Cardinality(maze_generator.walls) - 1
            /\ maze_generator.visited_cells \subseteq maze_generator'.visited_cells
            /\ Cardinality(maze_generator'.visited_cells)
                 = Cardinality(maze_generator.visited_cells) + 1]_vars

\* The loop has ended on the 3x3 grid after 8 iterations and 8 deletions.
C16_Witness ==
    /\ maze_generator.pc = "guard"
    /\ maze_generator.width = 3 /\ maze_generator.height = 3
    /\ maze_generator.iterations = 8
    /\ maze_generator.deleted = 8
    /\ maze_generator.frontier = {}

----------------------------------------------------------------------------
(* MazeGame: the fields set by __init__, the main loop run, show_modal,    *)
(* reset_game and handle_movement, with pygame's event queue, its clock    *)
(* and the keyboard as the environment.                                    *)
(*                                                                         *)
(* The variable game is a record. Fields of MazeGame: running, game_over,  *)
(* key_held_time, last_move_time, last_key, player_pos, goal_pos;          *)
(* MazeGame.walls, MAZE_SIZE and MazeGame.maze_generator are the variables *)
(* walls, maze_size and maze_generator. The environment: now (the value of *)
(* pygame.time.get_ticks), events (pygame's event queue), keys_down (the   *)
(* keys physically held). Control: pc is "constructing" (in __init__,      *)
(* generate_maze running), "run" (at `while self.running`), "modal" (at    *)
(* `while waiting_for_click`), "resetting" (in reset_game, generate_maze   *)
(* running, called from the modal's for loop), "quit" (run has returned);  *)
(* batch holds the events the modal's for loop has still to handle when    *)
(* reset_game returns. Object identity: gen_id names the object held by    *)
(* self.maze_generator, walls_id the generator whose set self.walls is.    *)
(* History: op (the last operation), trail (the player position before     *)
(* and after every handle_movement call of the last frame), repeat_move    *)
(* (the last frame moved at line 414), repeated (a repeat move was made    *)
(* since the last direction KEYDOWN was handled), released (the KEYUP of   *)
(* the key in last_key was issued, and no direction KEYDOWN after it).     *)

\* Largest MAZE_SIZE of the games played.
MaxGameSize == 2
\* Most events waiting in pygame's queue.
MaxQueue == 2
\* Most keys held down at the same time.
MaxKeysDown == 2
\* The duration of a frame in ms; a slow frame takes two of them.
FrameMs == 300
\* The clock value after which no frame is started.
MaxTime == 1200

initial_delay == 500
repeat_delay == 250

K_UP == "K_UP"
K_DOWN == "K_DOWN"
K_LEFT == "K_LEFT"
K_RIGHT == "K_RIGHT"
\* A key that is not a direction key.
K_SPACE == "K_SPACE"
DirectionKeys == {K_UP, K_DOWN, K_LEFT, K_RIGHT}
Keys == DirectionKeys \cup {K_SPACE}
None == "None"

QUIT == "QUIT"
KEYDOWN == "KEYDOWN"
KEYUP == "KEYUP"
MOUSEBUTTONDOWN == "MOUSEBUTTONDOWN"
\* Where the mouse is when a MOUSEBUTTONDOWN is handled.
MousePositions == {"exit_button", "new_game_button", "elsewhere"}
Event(type, arg) == [type |-> type, arg |-> arg]
FrameDurations == {FrameMs, 2 * FrameMs}

\* The fields of MazeGame when __init__ calls generate_maze.
MazeGame ==
    [pc |-> "constructing",
     running |-> TRUE, game_over |-> FALSE,
     key_held_time |-> 0, last_move_time |-> 0, last_key |-> None,
     player_pos |-> <<0, 0>>, goal_pos |-> <<0, 0>>,
     now |-> 0, events |-> <<>>, batch |-> <<>>, keys_down |-> {},
     gen_id |-> 0, walls_id |-> -1,
     op |-> "__init__", trail |-> <<>>, repeat_move |-> FALSE,
     repeated |-> FALSE, released |-> FALSE]

\* handle_movement that moves without asking can_move.
handle_movement_unchecked(gm, ws, size, key) ==
    LET dx == CASE key = K_LEFT -> -1 [] key = K_RIGHT -> 1 [] OTHER -> 0
        dy == CASE key = K_UP -> -1 [] key = K_DOWN -> 1 [] OTHER -> 0
        new_pos == <<gm.player_pos[1] + dx, gm.player_pos[2] + dy>>
    IN [gm EXCEPT !.player_pos = new_pos, !.trail = Append(@, new_pos)]

handle_movement(gm, ws, size, key) ==
    LET dx == CASE key = K_LEFT -> -1 [] key = K_RIGHT -> 1 [] OTHER -> 0
        dy == CASE key = K_UP -> -1 [] key = K_DOWN -> 1 [] OTHER -> 0
        new_pos == <<gm.player_pos[1] + dx, gm.player_pos[2] + dy>>
        after == IF can_move(ws, size, gm.player_pos, new_pos).ret
                 THEN new_pos
                 ELSE gm.player_pos
    IN [gm EXCEPT !.player_pos = after, !.trail = Append(@, after)]

\* The body of run's `for event in pygame.event.get()` for one event.
run_event(gm, ws, size, event, current_time) ==
    CASE event.type = QUIT -> [gm EXCEPT !.running = FALSE]
      [] event.type = KEYDOWN ->
            IF event.arg \in DirectionKeys
            THEN handle_movement([gm EXCEPT !.last_key = event.arg,
                                            !.key_held_time = 0,
                                            !.last_move_time = current_time,
                                            !.repeated = FALSE],
                                 ws, size, event.arg)
            ELSE gm
      [] event.type = KEYUP ->
            IF event.arg = gm.last_key
            THEN [gm EXCEPT !.last_key = None]
            ELSE gm
      [] OTHER -> gm

RECURSIVE run_events(_, _, _, _, _)
run_events(gm, ws, size, events, current_time) ==
    IF events = <<>>
    THEN gm
    ELSE run_events(run_event(gm, ws, size, Head(events), current_time),
                    ws, size, Tail(events), current_time)

\* The held-key block of run.
held_keys(gm, ws, size, current_time) ==
    IF ~gm.game_over /\ gm.last_key # None
    THEN LET held == [gm EXCEPT !.key_held_time = current_time - gm.last_move_time]
         IN IF held.key_held_time > initial_delay
            THEN LET time_since_last_move == current_time - held.last_move_time
                 IN IF time_since_last_move > repeat_delay
                    THEN [handle_movement(held, ws, size, held.last_key)
                            EXCEPT !.last_move_time = current_time,
                                   !.repeat_move = TRUE,
                                   !.repeated = TRUE]
                    ELSE held
            ELSE held
    ELSE gm

\* The end of a frame: draw, tick, and the test `while self.running`.
end_of_frame(gm) ==
    [gm EXCEPT !.pc = IF gm.running THEN "run" ELSE "quit"]

\* The goal check of run: show_modal is entered when the player is on the
\* goal.
goal_check(gm) ==
    IF gm.player_pos = gm.goal_pos
    THEN [gm EXCEPT !.game_over = TRUE, !.pc = "modal"]
    ELSE end_of_frame(gm)

\* One pass of run's loop that reads current_time from the clock.
frame(gm, ws, size, current_time) ==
    LET start == [gm EXCEPT !.now = current_time, !.events = <<>>,
                            !.op = "run", !.trail = <<gm.player_pos>>,
                            !.repeat_move = FALSE]
        handled == run_events(start, ws, size, gm.events, current_time)
    IN goal_check(held_keys(handled, ws, size, current_time))

\* show_modal's `for event in pygame.event.get()` over the events `batch`,
\* waiting_for_click being `waiting`. A click on New calls reset_game: the
\* loop is left at pc "resetting" with the rest of the batch.
RECURSIVE modal_events(_, _, _)
modal_events(gm, batch, waiting) ==
    IF batch = <<>>
    THEN IF waiting
         THEN [gm EXCEPT !.pc = "modal", !.batch = <<>>]
         ELSE end_of_frame([gm EXCEPT !.batch = <<>>])
    ELSE LET event == Head(batch)
         IN CASE event.type = QUIT ->
                    modal_events([gm EXCEPT !.running = FALSE], Tail(batch), FALSE)
              [] event.type = MOUSEBUTTONDOWN /\ event.arg = "exit_button" ->
                    modal_events([gm EXCEPT !.running = FALSE], Tail(batch), FALSE)
              [] event.type = MOUSEBUTTONDOWN /\ event.arg = "new_game_button" ->
                    [gm EXCEPT !.pc = "resetting", !.batch = Tail(batch)]
              [] OTHER -> modal_events(gm, Tail(batch), waiting)

\* reset_game that calls generate_maze on the generator it already has.
reset_game_reuse(gm, g, size) ==
    [game |-> gm, maze_generator |-> [g EXCEPT !.pc = "init"]]

\* The first line of reset_game: a new MazeGenerator object.
reset_game_new(gm, g, size) ==
    [game |-> [gm EXCEPT !.gen_id = 1 - @],
     maze_generator |-> MazeGenerator(size, size, g.hash_seed)]

\* The game and its generator when the modal's for loop stops: in
\* reset_game if New was clicked.
enter_reset(gm, g, size) ==
    IF gm.pc = "resetting"
    THEN reset_game_new(gm, g, size)
    ELSE [game |-> gm, maze_generator |-> g]

\* reset_game from the return of generate_maze, self.walls being the
\* returned set.
reset_game_return(gm) ==
    [gm EXCEPT !.walls_id = gm.gen_id,
               !.player_pos = <<0, 0>>,
               !.game_over = FALSE,
               !.op = "reset_game"]

\* One step of generate_maze: up to the loop, one iteration, or the guard
\* and the return.
generate_maze_step(g, r1, r2) ==
    CASE g.pc = "init" -> generate_maze_start(g)
      [] g.pc = "loop" -> PrimIteration(g, r1, r2)
      [] g.pc = "guard" -> generate_maze_finish(g)

\* Where the player's input is taken: generate_maze runs to its end with
\* no event handled, so an event issued during it is one issued after it.
Live == {"run", "modal"}

InitGame ==
    /\ maze_size \in 1 .. MaxGameSize
    /\ maze_generator = MazeGenerator(maze_size, maze_size, 0)
    /\ twin = NoGenerator
    /\ walls = {}
    /\ call = NoCall
    /\ game = MazeGame

\* generate_maze, called by __init__ or by reset_game, takes a step. The
\* set self.walls changes with it if it is the generator's set.
GameGenerateMaze ==
    /\ game.pc \in {"constructing", "resetting"}
    /\ maze_generator.pc # "done"
    /\ \E r1 \in 0 .. (IF maze_generator.pc = "loop"
                        THEN Cardinality(maze_generator.frontier) - 1
                        ELSE 0),
          r2 \in 0 .. (IF maze_generator.pc = "loop" THEN 3 ELSE 0) :
           maze_generator' = generate_maze_step(maze_generator, r1, r2)
    /\ walls' = IF game.walls_id = game.gen_id
                THEN maze_generator'.walls
                ELSE walls
    /\ game' = [game EXCEPT !.op = "generate_maze", !.trail = <<>>]
    /\ UNCHANGED <<twin, maze_size, call>>

\* __init__ from the return of generate_maze; run is entered.
GameConstructed ==
    /\ game.pc = "constructing"
    /\ maze_generator.pc = "done"
    /\ walls' = maze_generator.walls
    /\ game' = [game EXCEPT !.walls_id = game.gen_id,
                            !.player_pos = <<0, 0>>,
                            !.goal_pos = <<maze_size - 1, maze_size - 1>>,
                            !.pc = "run",
                            !.op = "__init__"]
    /\ UNCHANGED <<maze_generator, twin, maze_size, call>>

\* One pass of run's loop, up to the next test of `while self.running` or
\* into show_modal.
Frame ==
    /\ game.pc = "run"
    /\ \E d \in FrameDurations :
           /\ game.now + d <= MaxTime
           /\ game' = frame(game, walls, maze_size, game.now + d)
    /\ UNCHANGED <<maze_generator, twin, maze_size, walls, call>>

\* One pass of show_modal's loop.
ModalPoll ==
    /\ game.pc = "modal"
    /\ \E d \in FrameDurations :
           /\ game.now + d <= MaxTime
           /\ LET polled == [game EXCEPT !.now = game.now + d,
                                         !.events = <<>>,
                                         !.op = "show_modal",
                                         !.trail = <<>>]
                  after == enter_reset(modal_events(polled, game.events, TRUE),
                                       maze_generator, maze_size)
              IN /\ game' = after.game
                 /\ maze_generator' = after.maze_generator
    /\ UNCHANGED <<twin, maze_size, walls, call>>

\* reset_game returns into show_modal's for loop, which handles the rest
\* of its events.
ResetGameReturn ==
    /\ game.pc = "resetting"
    /\ maze_generator.pc = "done"
    /\ walls' = maze_generator.walls
    /\ LET after == enter_reset(modal_events(reset_game_return(game),
                                             game.batch, FALSE),
                                maze_generator, maze_size)
       IN /\ game' = after.game
          /\ maze_generator' = after.maze_generator
    /\ UNCHANGED <<twin, maze_size, call>>

Post(event) ==
    /\ game.pc \in Live
    /\ Len(game.events) < MaxQueue
    /\ game' = [game EXCEPT !.events = Append(@, event),
                            !.op = "input", !.trail = <<>>]

\* The player presses a key.
KeyDown ==
    /\ game.pc \in Live
    /\ Len(game.events) < MaxQueue
    /\ Cardinality(game.keys_down) < MaxKeysDown
    /\ \E key \in Keys \ game.keys_down :
           game' = [game EXCEPT
                      !.events = Append(@, Event(KEYDOWN, key)),
                      !.keys_down = @ \cup {key},
                      !.released = IF key \in DirectionKeys THEN FALSE ELSE @,
                      !.op = "input", !.trail = <<>>]
    /\ UNCHANGED <<maze_generator, twin, maze_size, walls, call>>

\* The player releases a key.
KeyUp ==
    /\ game.pc \in Live
    /\ Len(game.events) < MaxQueue
    /\ \E key \in game.keys_down :
           game' = [game EXCEPT
                      !.events = Append(@, Event(KEYUP, key)),
                      !.keys_down = @ \ {key},
                      !.released =
                          \/ @
                          \/ /\ key = game.last_key
                             /\ \A i \in 1 .. Len(game.events) :
                                   ~ /\ game.events[i].type = KEYDOWN
                                     /\ game.events[i].arg \in DirectionKeys,
                      !.op = "input", !.trail = <<>>]
    /\ UNCHANGED <<maze_generator, twin, maze_size, walls, call>>

\* The player clicks.
MouseDown ==
    /\ \E pos \in MousePositions : Post(Event(MOUSEBUTTONDOWN, pos))
    /\ UNCHANGED <<maze_generator, twin, maze_size, walls, call>>

\* The player closes the window.
Quit ==
    /\ Post(Event(QUIT, None))
    /\ UNCHANGED <<maze_generator, twin, maze_size, walls, call>>

NextGame ==
    \/ GameGenerateMaze
    \/ GameConstructed
    \/ Frame
    \/ ModalPoll
    \/ ResetGameReturn
    \/ KeyDown
    \/ KeyUp
    \/ MouseDown
    \/ Quit

SpecGame == InitGame /\ [][NextGame]_vars

----------------------------------------------------------------------------
(* The claims about MazeGame.                                              *)

\* C11: after reset_game the game is in a fresh start state: walls is the
\* set returned by generate_maze run on a new, fully walled generator (the
\* generator is done, its W*H-1 iterations each deleted a wall of the full
\* set), the player is on (0, 0), the goal is (W-1, H-1) and game_over is
\* false; the Wall Set the game held before is not changed by the reset.
C11_ResetFreshStart ==
    /\ [](game.op = "reset_game" /\ game.pc # "resetting" =>
            LET g == maze_generator
                n == maze_size * maze_size
            IN /\ walls = g.walls
               /\ game.walls_id = game.gen_id
               /\ g.pc = "done"
               /\ g.width = maze_size /\ g.height = maze_size
               /\ g.iterations = n - 1
               /\ g.deleted = n - 1
               /\ walls \subseteq init_walls(maze_size, maze_size)
               /\ Cardinality(walls)
                    = Cardinality(init_walls(maze_size, maze_size)) - (n - 1)
               /\ game.player_pos = <<0, 0>>
               /\ game.goal_pos = <<maze_size - 1, maze_size - 1>>
               /\ ~game.game_over)
    /\ [][game.pc \in {"modal", "resetting"} /\ game'.op # "reset_game"
            => walls' = walls]_vars

\* reset_game has returned on the 2x2 grid from a game won on the goal: the
\* run loop goes on with a maze of one wall.
C11_Witness ==
    /\ game.op = "reset_game"
    /\ game.pc = "run"
    /\ maze_size = 2
    /\ Cardinality(walls) = 1
    /\ game.player_pos = <<0, 0>>
    /\ game.walls_id = game.gen_id

\* C17: in every game state the player is inside the grid; every change of
\* the player position made by a handle_movement call is a unit orthogonal
\* step between two in-bounds cells with no wall between them in the
\* current Wall Set; the cell of the player is connected to (0, 0) by open
\* edges of the current maze.
C17_PlayerStaysOnMaze ==
    game.pc # "constructing" =>
        /\ game.player_pos \in Cells(maze_size, maze_size)
        /\ game.op = "run" =>
              /\ game.trail[Len(game.trail)] = game.player_pos
              /\ \A i \in 1 .. Len(game.trail) - 1 :
                     game.trail[i + 1] # game.trail[i] =>
                         /\ game.trail[i] \in Cells(maze_size, maze_size)
                         /\ game.trail[i + 1] \in Cells(maze_size, maze_size)
                         /\ Manhattan(game.trail[i], game.trail[i + 1]) = 1
                         /\ Open(walls, game.trail[i], game.trail[i + 1])
        /\ game.player_pos
             \in Connected(OpenEdges(walls, maze_size, maze_size), {Start})

\* On a 2x2 maze, in a game that was reset, a handle_movement call of the
\* last frame has moved the player off (0, 0).
C17_Witness ==
    /\ game.op = "run"
    /\ maze_size = 2
    /\ game.gen_id = 1
    /\ Len(game.trail) >= 2
    /\ game.trail[1] = <<0, 0>>
    /\ game.trail[2] # <<0, 0>>
    /\ game.player_pos = game.trail[2]

----------------------------------------------------------------------------
(* SpecMazeMove: a MazeGame of MAZE_SIZE = maze_size takes the Wall Set    *)
(* returned by generate_maze, and can_move is called on it with any two    *)
(* cells of the grid.                                                      *)

InitMazeMove ==
    /\ maze_size \in {n \in 1 .. MaxCells : n * n <= MaxCells}
    /\ \E s \in HashSeeds :
           maze_generator = MazeGenerator(maze_size, maze_size, s)
    /\ twin = NoGenerator
    /\ walls = {}
    /\ call = NoCall
    /\ game = NoGame

\* self.walls = self.maze_generator.generate_maze(), then a call of
\* can_move.
CanMoveOnMaze ==
    /\ maze_generator.pc = "done"
    /\ call.pc = "none"
    /\ walls' = maze_generator.walls
    /\ \E from_cell \in Cells(maze_size, maze_size),
          to_cell \in Cells(maze_size, maze_size) :
           LET r == can_move(maze_generator.walls, maze_size, from_cell, to_cell)
           IN call' = [pc |-> "returned",
                       from_cell |-> from_cell, to_cell |-> to_cell,
                       ret |-> r.ret, lookups |-> r.lookups]
    /\ UNCHANGED <<maze_generator, twin, maze_size, game>>

NextMazeMove ==
    \/ GenerateMazeStart
    \/ PrimStep
    \/ GenerateMazeFinish
    \/ CanMoveOnMaze

SpecMazeMove == InitMazeMove /\ [][NextMazeMove]_vars

\* The four edges around the unit square whose corner of least coordinates
\* is c are all open.
SquareOpen(ws, c) ==
    /\ Open(ws, c, <<c[1] + 1, c[2]>>)
    /\ Open(ws, c, <<c[1], c[2] + 1>>)
    /\ Open(ws, <<c[1] + 1, c[2]>>, <<c[1] + 1, c[2] + 1>>)
    /\ Open(ws, <<c[1], c[2] + 1>>, <<c[1] + 1, c[2] + 1>>)

\* C18: on every Wall Set returned by generate_maze no unit square of the
\* grid has its four edges open, and can_move is false for every diagonal
\* unit step between in-bounds cells.
C18_NoDiagonalOnMaze ==
    /\ maze_generator.pc = "done" =>
          \A c \in Cells(maze_size - 1, maze_size - 1) :
              ~SquareOpen(maze_generator.walls, c)
    /\ (/\ call.pc = "returned"
        /\ Abs(call.to_cell[1] - call.from_cell[1]) = 1
        /\ Abs(call.to_cell[2] - call.from_cell[2]) = 1) => ~call.ret

\* On a generated 3x3 maze can_move((0,0), (1,1)) has looked up all four
\* edges of the square and returned false: only (0,1)-(1,1) is walled.
C18_Witness ==
    /\ call.pc = "returned"
    /\ maze_size = 3
    /\ call.from_cell = <<0, 0>> /\ call.to_cell = <<1, 1>>
    /\ Len(call.lookups) = 4
    /\ Open(walls, <<0, 0>>, <<1, 0>>)
    /\ Open(walls, <<1, 0>>, <<1, 1>>)
    /\ Open(walls, <<0, 0>>, <<0, 1>>)
    /\ ~Open(walls, <<0, 1>>, <<1, 1>>)
    /\ ~call.ret

----------------------------------------------------------------------------
(* Claims about the key repeat of run, under SpecGame.                     *)

\* C19: once the KEYUP of the direction key recorded in last_key has been
\* issued, no step calls handle_movement until the next direction KEYDOWN
\* is issued, whatever the interleaving of key events, frames, the win
\* modal and reset_game.
C19_RepeatStopsOnRelease ==
    [][game.released => ~(game'.op = "run" /\ Len(game'.trail) > 1)]_vars

\* The events of the queue that change last_key when run handles them: a
\* direction KEYDOWN, or the KEYUP of the key in last_key.
KeyChanges(gm) ==
    {i \in 1 .. Len(gm.events) :
        \/ gm.events[i].type = KEYDOWN /\ gm.events[i].arg \in DirectionKeys
        \/ gm.events[i].type = KEYUP /\ gm.events[i].arg = gm.last_key}

\* C20: the frame that handles a direction KEYDOWN calls handle_movement at
\* once; while the key stays held, a frame makes a repeat move iff more
\* than initial_delay (500 ms) have passed since the KEYDOWN and no repeat
\* was made yet, or more than repeat_delay (250 ms) have passed since the
\* previous repeat move.
C20_RepeatTiming ==
    [][(game.pc = "run" /\ game'.op = "run" /\ game'.now > game.now) =>
          /\ (\E i \in 1 .. Len(game.events) :
                 /\ game.events[i].type = KEYDOWN
                 /\ game.events[i].arg \in DirectionKeys)
                => /\ Len(game'.trail) >= 2
                   /\ game'.last_move_time = game'.now
          /\ (game.last_key # None /\ KeyChanges(game) = {})
                => (game'.repeat_move <=>
                       game'.now - game.last_move_time
                          > (IF game.repeated THEN repeat_delay
                                              ELSE initial_delay))]_vars

====
